---- MODULE Spec2Model ----
(***************************************************************************)
(* A model of the relay server in src/server.py: the shared dictionary     *)
(* `connections`, and one `handler` coroutine per accepted websocket.      *)
(* A websocket is identified by the index of its handler.  Each action is  *)
(* one uninterrupted run of a handler between two suspension points of    *)
(* the event loop (waiting for the next frame, waiting for a send).        *)
(***************************************************************************)
EXTENDS Integers, Sequences, FiniteSets, TLC

\* ------------------------------------------------------------- bounds
NumSessions == 2
NumIds == 2
\* values of OtherValues that frames carry besides the names
NumOther == 4
\* frames that reach one websocket in a run that follows the queue of frames
MaxArrivals == 3

IdNames == <<"alice", "bob", "carol", "dave">>

Sessions == 1..NumSessions

\* A JSON value that is not a string is written as its JSON text, and the
\* string that consists of one lone surrogate as its JSON escape.
JsonNull == "null"
JsonZero == "0"
JsonFalse == "false"
JsonOne == "1"
JsonTrue == "true"
JsonList == "[\"x\"]"
JsonEmptyList == "[]"
LoneSurrogate == "\\ud800"

\* The values the id and to fields of a frame can carry: the empty string,
\* NumIds names, and NumOther of the values that Python treats unlike a
\* plain string.
OtherValues ==
    <<LoneSurrogate, JsonList, JsonEmptyList, JsonNull, JsonTrue, JsonOne, JsonFalse,
      JsonZero>>

ClientIDs ==
    {""} \cup {IdNames[i] : i \in 1..NumIds} \cup {OtherValues[i] : i \in 1..NumOther \cap DOMAIN OtherValues}

\* bool(v): the empty string, None, 0, False and the empty list are falsy.
py_bool(v) == v \notin {"", JsonNull, JsonZero, JsonFalse, JsonEmptyList}

\* The dictionary key v is: False is the key 0 and True is the key 1.
py_key(v) == IF v = JsonFalse THEN JsonZero ELSE IF v = JsonTrue THEN JsonOne ELSE v

\* hash(v) raises TypeError for a list.
hashable(v) == v \notin {JsonList, JsonEmptyList}

\* print of a text with v in it raises UnicodeEncodeError for a lone
\* surrogate (sys.stdout encodes to UTF-8).
printable(v) == v # LoneSurrogate

\* The keys the dictionary can be asked for.
DictKeys == {py_key(v) : v \in ClientIDs}

\* ------------------------------------------------------------- values
\* Python's None for the local variable client_id; Some(x) is the string x.
None == <<>>
Some(x) == <<x>>

\* The result of connections.get() when the key is absent.
NoConn == 0

\* The value of the local variable client_id after client_id = v: JSON null
\* is None.
local(v) == IF v = JsonNull THEN None ELSE Some(v)

\* bool(client_id) of the local variable.
Truthy(cid) == cid # None /\ py_bool(cid[1])

\* ------------------------------------------------------------- frames
\* A raw text frame.  syntax "garbage" is text that is not JSON, "array" is
\* JSON that is not an object, "object" is a JSON object whose members are
\* listed in the order they are written.
Text(syntax, members) == [syntax |-> syntax, members |-> members]

NoFrame == Text("none", <<>>)

RegisterFrames ==
    {Text("object", << <<"type", "register">>, <<"id", x>> >>) : x \in ClientIDs}

ChatFrames ==
    {Text("object", << <<"type", "chat">>, <<"to", y>>, <<"text", "hi">> >>) : y \in ClientIDs}

Frames ==
    RegisterFrames \cup ChatFrames \cup
    { Text("garbage", <<>>),
      Text("array", <<>>),
      Text("object", << <<"type", "register">> >>),
      Text("object", << <<"type", "register">>, <<"id", IdNames[1]>>, <<"to", IdNames[1]>> >>),
      Text("object", << <<"type", "chat">>, <<"text", "hi">> >>),
      Text("object", << <<"to", IdNames[1]>>, <<"text", "hi">> >>) }

\* The frames of the runs that follow each frame from its arrival to its
\* delivery: a registration, and two chat frames that differ in their text.
OrderFrames ==
    { Text("object", << <<"type", "register">>, <<"id", IdNames[1]>> >>),
      Text("object", << <<"type", "chat">>, <<"to", IdNames[1]>>, <<"text", "hi">> >>),
      Text("object", << <<"type", "chat">>, <<"to", IdNames[1]>>, <<"text", "yo">> >>) }

\* json.loads: ok is FALSE when the text does not parse; isdict tells a JSON
\* object from any other JSON value; dict maps each key to the value of its
\* last occurrence.
Keys(members) == {members[i][1] : i \in DOMAIN members}

LastIndex(members, k) ==
    CHOOSE i \in DOMAIN members :
        /\ members[i][1] = k
        /\ \A j \in DOMAIN members : members[j][1] = k => j <= i

json_loads(message) ==
    [ ok     |-> message.syntax \in {"object", "array"},
      isdict |-> message.syntax = "object",
      dict   |-> [k \in Keys(message.members) |->
                     message.members[LastIndex(message.members, k)][2]] ]

\* json.dumps of the keys of a parsed object that the server itself reads.
json_dumps_known(data) ==
    Text("object",
         (IF "type" \in DOMAIN data.dict THEN << <<"type", data.dict["type"]>> >> ELSE <<>>)
         \o (IF "id" \in DOMAIN data.dict THEN << <<"id", data.dict["id"]>> >> ELSE <<>>)
         \o (IF "to" \in DOMAIN data.dict THEN << <<"to", data.dict["to"]>> >> ELSE <<>>))

\* ------------------------------------------------------------- state
VARIABLES
    connections,  \* the dictionary: a function from a set of ids to websockets
    client_id,    \* handler's local client_id, per websocket
    pc,           \* "recv": in the async-for; "send": awaiting send; "done"
    open,         \* whether the websocket's transport is still open
    pending,      \* the send a handler is awaiting (stale: history, the target
                  \* was already closed when it was looked up)
    unregCalls,   \* history: the arguments of the handler's unregister_client calls
    lastReg,      \* history: per id, the websocket that registered it last
    ev,           \* history: what the last step did
    sent,         \* history: per websocket, the frames that reached it, in order
    inq,          \* per websocket, the numbers of the frames that wait in the
                  \* library's queue for the async-for (a frame's number is its
                  \* index in sent)
    order,        \* history: per websocket, the frames its handler took from the
                  \* queue, in order, each with the websocket it started a send to
    cur,          \* history: what the dispatch that awaits its send looked up
    inbox         \* history: per websocket, the frames written to it

ordvars == <<sent, inq, order, cur, inbox>>

vars == <<connections, client_id, pc, open, pending, unregCalls, lastReg, ev,
          sent, inq, order, cur, inbox>>

NoPending ==
    [tgt |-> NoConn, message |-> NoFrame, raw |-> NoFrame, to |-> None, stale |-> FALSE]

Event(op, s, msg, out, to, tgt) ==
    [op |-> op, s |-> s, msg |-> msg, out |-> out, to |-> to, tgt |-> tgt, stale |-> FALSE]

EmptyDict == [k \in {} |-> NoConn]

NoCur == [n |-> 0, to |-> None, tgt |-> NoConn, ident |-> None]

Init ==
    /\ connections = EmptyDict
    /\ client_id = [s \in Sessions |-> None]
    /\ pc = [s \in Sessions |-> "recv"]
    /\ open = [s \in Sessions |-> TRUE]
    /\ pending = [s \in Sessions |-> NoPending]
    /\ unregCalls = [s \in Sessions |-> <<>>]
    /\ lastReg = [x \in DictKeys |-> NoConn]
    /\ ev = Event("init", 0, NoFrame, NoFrame, None, NoConn)
    /\ sent = [s \in Sessions |-> <<>>]
    /\ inq = [s \in Sessions |-> <<>>]
    /\ order = [s \in Sessions |-> <<>>]
    /\ cur = [s \in Sessions |-> NoCur]
    /\ inbox = [s \in Sessions |-> <<>>]

\* ------------------------------------------------------------- registry
\* connections[client_id] = websocket
register_client(conns, websocket, cid) ==
    [k \in DOMAIN conns \cup {py_key(cid)} |->
        IF k = py_key(cid) THEN websocket ELSE conns[k]]

\* connections.pop(client_id, None)
unregister_client(conns, cid) ==
    [k \in DOMAIN conns \ {py_key(cid)} |-> conns[k]]

\* connections.get(client_id)
connections_get(conns, cid) ==
    IF py_key(cid) \in DOMAIN conns THEN conns[py_key(cid)] ELSE NoConn

\* A relay that looks the recipient up under some registered key, not
\* necessarily the one asked for.
relay_target_any_key(conns, cid) ==
    IF py_key(cid) \in DOMAIN conns
    THEN conns[CHOOSE k \in DOMAIN conns : \A j \in DOMAIN conns : conns[k] >= conns[j]]
    ELSE NoConn

\* relay_message: the websocket looked up, and what is handed to its send.
relay_target(conns, cid) == connections_get(conns, cid)

\* A relay that forwards the parsed message serialised again, keeping only
\* the fields the server reads.
relay_payload_reserialised(message) == json_dumps_known(json_loads(message))

relay_payload(message) == message

\* ------------------------------------------------------------- handler
\* A dispatch that relays without asking whether the sender has registered.
Branch_without_identity_test(cid, message) ==
    LET data == json_loads(message) IN
    IF ~data.ok \/ ~data.isdict \/ "type" \notin DOMAIN data.dict THEN "raise"
    ELSE IF data.dict["type"] = "register"
         THEN (IF "id" \in DOMAIN data.dict THEN "register" ELSE "raise")
    ELSE IF "to" \in DOMAIN data.dict THEN "relay"
    ELSE "skip"

\* The branch the loop body takes for one frame, given the local client_id:
\*   "raise"    json.loads, data['type'] or data['id'] raises
\*   "register" the register branch
\*   "relay"    the elif branch
\*   "skip"     neither
Branch(cid, message) ==
    LET data == json_loads(message) IN
    IF ~data.ok \/ ~data.isdict \/ "type" \notin DOMAIN data.dict THEN "raise"
    ELSE IF data.dict["type"] = "register"
         THEN (IF "id" \in DOMAIN data.dict THEN "register" ELSE "raise")
    ELSE IF Truthy(cid) /\ "to" \in DOMAIN data.dict THEN "relay"
    ELSE "skip"

\* The finally block: the arguments of the unregister_client calls it makes.
finally_calls(cid) == IF Truthy(cid) THEN <<cid[1]>> ELSE <<>>

\* The dictionary after the finally block: pop raises TypeError for an
\* unhashable argument and removes nothing.
finally_connections(conns, cid) ==
    IF finally_calls(cid) = <<>> \/ ~hashable(finally_calls(cid)[1]) THEN conns
    ELSE unregister_client(conns, finally_calls(cid)[1])

\* A teardown that, after a failed send, also unregisters the identifier the
\* frame was addressed to.
Terminate_dropping_target(s) ==
    /\ connections' =
          (IF pending[s].to = None
           THEN finally_connections(connections, client_id[s])
           ELSE unregister_client(finally_connections(connections, client_id[s]),
                                  pending[s].to[1]))
    /\ unregCalls' = [unregCalls EXCEPT ![s] = finally_calls(client_id[s])]
    /\ pc' = [pc EXCEPT ![s] = "done"]
    /\ open' = [open EXCEPT ![s] = FALSE]
    /\ pending' = [pending EXCEPT ![s] = NoPending]
    /\ UNCHANGED <<client_id, lastReg>>

\* The handler leaves the loop (normally or by an exception), runs the
\* finally block and returns; the library then closes the websocket.
Terminate(s) ==
    /\ connections' = finally_connections(connections, client_id[s])
    /\ unregCalls' = [unregCalls EXCEPT ![s] = finally_calls(client_id[s])]
    /\ pc' = [pc EXCEPT ![s] = "done"]
    /\ open' = [open EXCEPT ![s] = FALSE]
    /\ pending' = [pending EXCEPT ![s] = NoPending]
    /\ UNCHANGED <<client_id, lastReg>>

\* A register branch that remembers the identifier and leaves the insertion
\* into the registry for later.
register_branch_identity_only(s, cid) ==
    /\ client_id' = [client_id EXCEPT ![s] = local(cid)]
    /\ lastReg' = [lastReg EXCEPT ![py_key(cid)] = s]
    /\ UNCHANGED <<connections, pc, open, pending, unregCalls>>

\* Whether the register branch returns: the insertion raises TypeError for
\* an unhashable id, and the print of register_client raises
\* UnicodeEncodeError for an id that cannot be encoded.
register_returns(cid) == hashable(cid) /\ printable(cid)

\* The register branch: client_id = data['id'], then register_client, which
\* does not suspend.  When register_client raises, the finally block runs
\* in the same step, with the client_id just assigned.
register_branch(s, cid) ==
    /\ client_id' = [client_id EXCEPT ![s] = local(cid)]
    /\ IF register_returns(cid)
       THEN /\ connections' = register_client(connections, s, cid)
            /\ lastReg' = [lastReg EXCEPT ![py_key(cid)] = s]
            /\ UNCHANGED <<pc, open, pending, unregCalls>>
       ELSE /\ connections' =
                  finally_connections(IF hashable(cid)
                                      THEN register_client(connections, s, cid)
                                      ELSE connections,
                                      local(cid))
            /\ lastReg' = IF hashable(cid) THEN [lastReg EXCEPT ![py_key(cid)] = s]
                          ELSE lastReg
            /\ unregCalls' = [unregCalls EXCEPT ![s] = finally_calls(local(cid))]
            /\ pc' = [pc EXCEPT ![s] = "done"]
            /\ open' = [open EXCEPT ![s] = FALSE]
            /\ pending' = [pending EXCEPT ![s] = NoPending]

\* The body of the loop for one frame, up to the next suspension point.
dispatch(s, message) ==
    LET data == json_loads(message)
        br   == Branch(client_id[s], message)
    IN
    CASE br = "raise" ->
           /\ Terminate(s)
           /\ ev' = Event("raise", s, message, NoFrame, None, NoConn)
      [] br = "register" ->
           /\ register_branch(s, data.dict["id"])
           /\ ev' = Event(IF register_returns(data.dict["id"]) THEN "register"
                          ELSE "regraise",
                          s, message, NoFrame, None, NoConn)
      [] br = "relay" ->
           LET to  == data.dict["to"]
               tgt == IF hashable(to) THEN relay_target(connections, to) ELSE NoConn
           IN
           IF ~hashable(to) \/ (tgt = NoConn /\ ~printable(to))
           THEN \* connections.get raises TypeError, or the print of the
                \* not-found branch raises UnicodeEncodeError
                /\ Terminate(s)
                /\ ev' = Event("relayraise", s, message, NoFrame, Some(to), NoConn)
           ELSE IF tgt # NoConn
           THEN /\ pc' = [pc EXCEPT ![s] = "send"]
                /\ pending' = [pending EXCEPT ![s] =
                                  [tgt |-> tgt, message |-> relay_payload(message),
                                   raw |-> message, to |-> Some(to),
                                   stale |-> ~open[tgt]]]
                /\ ev' = Event("lookup", s, message, NoFrame, Some(to), tgt)
                /\ UNCHANGED <<connections, client_id, open, unregCalls, lastReg>>
           ELSE /\ ev' = Event("notfound", s, message, NoFrame, Some(to), NoConn)
                /\ UNCHANGED <<connections, client_id, pc, open, pending, unregCalls,
                               lastReg>>
      [] br = "skip" ->
           /\ ev' = Event("skip", s, message, NoFrame, None, NoConn)
           /\ UNCHANGED <<connections, client_id, pc, open, pending, unregCalls,
                          lastReg>>

\* One iteration of `async for message in websocket`, on a frame that
\* arrived while the websocket was open (the handler may take it from the
\* queue after the transport has closed).
handler_message(s, message) ==
    /\ pc[s] = "recv"
    /\ dispatch(s, message)
    /\ UNCHANGED ordvars

\* `await target_websocket.send(message)` resumes: the frame was written to
\* an open target, or the send raised because the target is closed.
send_resumes(s) ==
    /\ pc[s] = "send"
    /\ LET p == pending[s] IN
       IF open[p.tgt]
       THEN /\ pc' = [pc EXCEPT ![s] = "recv"]
            /\ pending' = [pending EXCEPT ![s] = NoPending]
            /\ ev' = Event("delivered", s, p.raw, p.message, p.to, p.tgt)
            /\ UNCHANGED <<connections, client_id, open, unregCalls, lastReg>>
       ELSE /\ Terminate(s)
            /\ ev' = [Event("sendfailed", s, p.raw, NoFrame, p.to, p.tgt)
                         EXCEPT !.stale = p.stale]

handler_send_done(s) ==
    /\ send_resumes(s)
    /\ UNCHANGED ordvars

\* The transport of a websocket closes (peer disconnect, transport error).
connection_lost(s) ==
    /\ open[s]
    /\ pc[s] # "done"
    /\ open' = [open EXCEPT ![s] = FALSE]
    /\ ev' = Event("lost", s, NoFrame, NoFrame, None, NoConn)
    /\ UNCHANGED <<connections, client_id, pc, pending, unregCalls, lastReg>>
    /\ UNCHANGED ordvars

\* The async-for ends on a closed websocket whose queue is empty, and the
\* finally block runs.
handler_closed(s) ==
    /\ pc[s] = "recv"
    /\ ~open[s]
    /\ inq[s] = <<>>
    /\ Terminate(s)
    /\ ev' = Event("closed", s, NoFrame, NoFrame, None, NoConn)
    /\ UNCHANGED ordvars

Next ==
    \/ \E s \in Sessions, message \in Frames : handler_message(s, message)
    \/ \E s \in Sessions : handler_send_done(s)
    \/ \E s \in Sessions : connection_lost(s)
    \/ \E s \in Sessions : handler_closed(s)

Spec == Init /\ [][Next]_vars

\* ------------------------------------------------------------- frame order
\* The same handlers, with each frame followed from its arrival at the
\* websocket, through the queue the async-for reads, to the websocket it is
\* written to.

\* A queue that hands out the newest frame first.
next_index_newest(q) == Len(q)

\* `async for message in websocket` yields the oldest queued frame.
next_index(q) == 1

Remove(q, i) == SubSeq(q, 1, i - 1) \o SubSeq(q, i + 1, Len(q))

\* A send that writes the frame to the target twice.
deliver_twice(box, tgt, e) == [box EXCEPT ![tgt] = Append(Append(@, e), e)]

\* target_websocket.send(message) writes one frame to the target.
deliver(box, tgt, e) == [box EXCEPT ![tgt] = Append(@, e)]

\* A frame reaches the websocket and is queued.
frame_arrives(s, message) ==
    /\ open[s]
    /\ pc[s] # "done"
    /\ Len(sent[s]) < MaxArrivals
    /\ sent' = [sent EXCEPT ![s] = Append(@, message)]
    /\ inq' = [inq EXCEPT ![s] = Append(@, Len(sent[s]) + 1)]
    /\ UNCHANGED <<connections, client_id, pc, open, pending, unregCalls, lastReg, ev,
                   order, cur, inbox>>

\* The async-for takes the next queued frame and runs the body of the loop
\* on it, up to the next suspension point.
handler_next(s) ==
    /\ pc[s] = "recv"
    /\ inq[s] # <<>>
    /\ LET i       == next_index(inq[s])
           n       == inq[s][i]
           message == sent[s][n]
       IN
       /\ dispatch(s, message)
       /\ inq' = [inq EXCEPT ![s] = Remove(@, i)]
       /\ order' = [order EXCEPT ![s] =
                       Append(@, [n |-> n,
                                  tgt |-> IF pc'[s] = "send" THEN pending'[s].tgt
                                          ELSE NoConn])]
       /\ cur' = [cur EXCEPT ![s] =
                     IF pc'[s] = "send"
                     THEN [n |-> n,
                           to |-> Some(json_loads(message).dict["to"]),
                           tgt |-> connections_get(connections,
                                                   json_loads(message).dict["to"]),
                           ident |-> client_id[s]]
                     ELSE NoCur]
       /\ UNCHANGED <<sent, inbox>>

\* The awaited send resumes; a frame that was written is entered in the
\* inbox of the websocket it was written to.
relay_completes(s) ==
    /\ send_resumes(s)
    /\ inbox' = IF ev'.op = "delivered"
                THEN deliver(inbox, pending[s].tgt,
                             [from |-> s, n |-> cur[s].n, frame |-> ev'.out,
                              to |-> cur[s].to, tgt |-> cur[s].tgt,
                              ident |-> cur[s].ident])
                ELSE inbox
    /\ cur' = [cur EXCEPT ![s] = NoCur]
    /\ UNCHANGED <<sent, inq, order>>

NextOrder ==
    \/ \E s \in Sessions, message \in OrderFrames : frame_arrives(s, message)
    \/ \E s \in Sessions : handler_next(s)
    \/ \E s \in Sessions : relay_completes(s)
    \/ \E s \in Sessions : connection_lost(s)
    \/ \E s \in Sessions : handler_closed(s)

SpecOrder == Init /\ [][NextOrder]_vars

\* ------------------------------------------------------------- properties
\* What a frame says, read off its text (keys are unique in every frame of
\* Frames).
Member(m, k) == \E i \in DOMAIN m.members : m.members[i][1] = k

Value(m, k) == m.members[CHOOSE i \in DOMAIN m.members : m.members[i][1] = k][2]

\* A parseable frame with a type other than "register" and a to field.
IsRelayFrame(m) ==
    /\ m.syntax = "object"
    /\ Member(m, "type")
    /\ Value(m, "type") # "register"
    /\ Member(m, "to")

\* The events of a step that dispatches one inbound frame.
MsgOps == {"raise", "register", "regraise", "lookup", "notfound", "relayraise", "skip"}

\* The registry is the same dictionary before and after the step, but for
\* the keys in `gone`, which are absent after it.
SameBut(gone) ==
    /\ DOMAIN connections' = DOMAIN connections \ gone
    /\ \A k \in DOMAIN connections' : connections'[k] = connections[k]

C2_Original ==
    \A X \in DictKeys :
        /\ (X \in DOMAIN connections)
             <=> (lastReg[X] # NoConn /\ pc[lastReg[X]] # "done")
        /\ (X \in DOMAIN connections) => connections[X] = lastReg[X]

\* C3, as claimed: once B has registered an identifier X that A held, and
\* until X is registered again, a relay addressed to X goes to B's
\* connection, whatever A does in between, its termination included.
C3_Original ==
    \A A \in Sessions, B \in Sessions, X \in ClientIDs :
        ( /\ A # B
          /\ lastReg[py_key(X)] = B
          /\ client_id[A] = Some(X)
          /\ pc[B] # "done"
          /\ ev.op \in {"lookup", "notfound"}
          /\ ev.to = Some(X) )
        => (ev.op = "lookup" /\ ev.tgt = B)

\* C4, as claimed: once a session that registered has terminated and its
\* cleanup has run, no registry entry maps to its connection.
C4_Original ==
    \A s \in Sessions :
        (pc[s] = "done" /\ client_id[s] # None)
        => \A X \in DOMAIN connections : connections[X] # s

\* C5, as claimed: a terminated session has called unregister exactly once,
\* with its last registered identifier, if it ever processed a successful
\* registration (whatever the identifier, the empty string included), and
\* not at all otherwise.  Stated for the sessions whose last registration,
\* if any, returned: for them client_id is the last registered identifier.
C5_Original ==
    \A s \in Sessions :
        (pc[s] = "done" /\ (client_id[s] = None \/ register_returns(client_id[s][1])))
        => unregCalls[s] = (IF client_id[s] # None THEN <<client_id[s][1]>> ELSE <<>>)

\* No live session is registered under X: none remembers X as its identity
\* and the entry of X, if any, is not a live session's connection.
NoLiveHolder(X) ==
    \A R \in Sessions :
        pc[R] # "done" => (client_id[R] # Some(X) /\ connections_get(connections, X) # R)

\* C6, as claimed: a relay by an identified session to an identifier under
\* which no live session is registered attempts no send, raises nothing in
\* the sender, leaves the sender alive and identified and the registry as
\* it was.
C6_Original ==
    [][ \A S \in Sessions :
          ( /\ ev'.op \in MsgOps /\ ev'.s = S
            /\ Truthy(client_id[S])
            /\ IsRelayFrame(ev'.msg)
            /\ NoLiveHolder(Value(ev'.msg, "to")) )
          => ( /\ ev'.op = "notfound"
               /\ pc'[S] = "recv"
               /\ pending'[S] = NoPending
               /\ client_id' = client_id
               /\ connections' = connections )
      ]_vars

\* C7, as claimed: when a session sends a frame that is not parseable, it
\* terminates and every other live session keeps its state, its identity
\* and every registry entry that maps to its connection.
C7_Original ==
    [][ \A D \in Sessions :
          ( ev'.op \in MsgOps /\ ev'.s = D /\ ev'.msg.syntax = "garbage" )
          => ( /\ pc'[D] = "done"
               /\ \A E \in Sessions \ {D} :
                    pc[E] # "done"
                    => ( /\ pc'[E] = pc[E]
                         /\ open'[E] = open[E]
                         /\ client_id'[E] = client_id[E]
                         /\ \A X \in ClientIDs :
                              connections_get(connections, X) = E
                              => connections_get(connections', X) = E ) )
      ]_vars

\* C8: when the send a session awaits is performed on a target that is
\* already closed, the sender terminates and unregisters its own remembered
\* identifier; that cleanup is the only change to the registry (the relay
\* itself removes nothing, so an entry of the dead target under any other
\* key stays), and the target's session is left as it was.
C8_StaleSendKillsSender ==
    [][ \A S \in Sessions :
          ( pc[S] = "send" /\ pc'[S] # "send" /\ ~open[pending[S].tgt] )
          => ( /\ ev'.op = "sendfailed" /\ ev'.s = S /\ ev'.tgt = pending[S].tgt
               /\ ev'.out = NoFrame
               /\ pc'[S] = "done"
               /\ ~open'[S]
               /\ unregCalls'[S] = <<client_id[S][1]>>
               /\ SameBut({py_key(client_id[S][1])})
               /\ \A T \in Sessions \ {S} :
                    /\ pc'[T] = pc[T]
                    /\ open'[T] = open[T]
                    /\ client_id'[T] = client_id[T]
                    /\ pending'[T] = pending[T] )
      ]_vars

\* C8, witness: a send has failed on a target other than the sender that
\* was already closed when the relay looked it up, the sender is terminated
\* and has unregistered its own identifier, and the entry of the dead target
\* is still in the registry.
C8_Witness ==
    /\ ev.op = "sendfailed"
    /\ ev.stale
    /\ ev.tgt # ev.s
    /\ ~open[ev.tgt]
    /\ pc[ev.s] = "done"
    /\ unregCalls[ev.s] = <<client_id[ev.s][1]>>
    /\ ev.to # client_id[ev.s]
    /\ connections_get(connections, ev.to[1]) = ev.tgt

\* C9: a non-register frame with a to field dispatched by a session that
\* has never registered is dropped: nothing is sent, the registry and every
\* session are as before, and the sender stays alive and unidentified.
C9_UnregisteredSenderDropped ==
    [][ \A S \in Sessions :
          ( /\ ev'.op \in MsgOps /\ ev'.s = S
            /\ client_id[S] = None
            /\ IsRelayFrame(ev'.msg) )
          => ( /\ ev'.op = "skip"
               /\ ev'.tgt = NoConn
               /\ connections' = connections
               /\ client_id' = client_id
               /\ pc' = pc
               /\ open' = open
               /\ pending' = pending
               /\ unregCalls' = unregCalls )
      ]_vars

\* C9, witness: an unregistered session has just had a frame dropped whose
\* to field names an identifier registered to an open connection.
C9_Witness ==
    /\ ev.op = "skip"
    /\ client_id[ev.s] = None
    /\ pc[ev.s] = "recv"
    /\ IsRelayFrame(ev.msg)
    /\ connections_get(connections, Value(ev.msg, "to")) # NoConn
    /\ open[connections_get(connections, Value(ev.msg, "to"))]

\* C10, as claimed: a relayed frame is never delivered to the connection it
\* was received on.
C10_Original ==
    ev.op = "delivered" => ev.tgt # ev.s

\* C10, amended: a relay is sent to the connection the registry maps the to
\* field to at the lookup; that is the sender's own connection exactly when
\* the entry is the sender's own connection (as when to names the sender's
\* own registered identifier), and a different connection otherwise.
C10_SelfDeliveryOnlyToOwnEntry ==
    [][ \A S \in Sessions :
          /\ ( ev'.op = "lookup" /\ ev'.s = S )
             => ( (pending'[S].tgt = S)
                    <=> (connections_get(connections, Value(ev'.msg, "to")) = S) )
          /\ ( ev'.op = "delivered" /\ ev'.s = S )
             => ( (ev'.tgt = S) <=> (pending[S].tgt = S) )
      ]_vars

\* C10, witness: a session has received its own frame, addressed to the
\* identifier it is registered under.
C10_Witness ==
    /\ ev.op = "delivered"
    /\ ev.tgt = ev.s
    /\ ev.to = client_id[ev.s]
    /\ ev.out = ev.msg

\* A frame of type "register" that carries an id.
IsRegisterFrame(m) ==
    /\ m.syntax = "object"
    /\ Member(m, "type")
    /\ Value(m, "type") = "register"
    /\ Member(m, "id")

\* C11, as claimed: processing a registration frame sends nothing (no
\* send is started or completed on any connection), closes no connection
\* and terminates no session; every other session, a previous holder of the
\* identifier included, keeps its remembered identity.
C11_Original ==
    [][ \A S \in Sessions :
          ( ev'.op \in MsgOps /\ ev'.s = S /\ IsRegisterFrame(ev'.msg) )
          => ( /\ ev'.out = NoFrame /\ ev'.tgt = NoConn
               /\ pending' = pending
               /\ pc' = pc
               /\ open' = open
               /\ unregCalls' = unregCalls
               /\ \A T \in Sessions \ {S} : client_id'[T] = client_id[T] )
      ]_vars

\* C13, as claimed: no two registry entries hold the same connection.
C13_Original ==
    \A X \in DOMAIN connections, Y \in DOMAIN connections :
        X # Y => connections[X] # connections[Y]

\* C14, as claimed: once every session has terminated the registry is
\* empty (each session's cleanup runs in the step that terminates it, so
\* nothing is left to happen afterwards).
C14_Original ==
    (\A s \in Sessions : pc[s] = "done") => connections = EmptyDict

\* C15: every registry operation is one step of one session.  A
\* registration updates the remembered identity and the registry together:
\* right after it the session remembers the identifier of the frame and the
\* registry maps that identifier to the session's connection.  A session is
\* part-way through a dispatch only while it awaits a relay's send, after
\* its lookup: a suspended session has a looked-up target, and a session
\* that is not suspended has no operation in progress.
C15_AtomicRegistryOperations ==
    /\ ev.op = "register"
         => ( /\ client_id[ev.s] = local(Value(ev.msg, "id"))
              /\ connections_get(connections, Value(ev.msg, "id")) = ev.s
              /\ lastReg[py_key(Value(ev.msg, "id"))] = ev.s )
    /\ ev.op = "regraise"
         => ( /\ client_id[ev.s] = local(Value(ev.msg, "id"))
              /\ pc[ev.s] = "done"
              /\ pending[ev.s] = NoPending )
    /\ \A s \in Sessions :
         /\ pc[s] \in {"recv", "send", "done"}
         /\ pc[s] = "send"
              => ( /\ pending[s].tgt \in Sessions
                   /\ pending[s].to # None
                   /\ IsRelayFrame(pending[s].raw) )
         /\ pc[s] # "send" => pending[s] = NoPending
    /\ \A s \in Sessions :
         (client_id[s] # None /\ pc[s] # "done")
         => \E X \in ClientIDs : client_id[s] = Some(X) /\ lastReg[py_key(X)] # NoConn

\* C15, witness: a session has just registered an identifier held by
\* another session while that session awaits a send, between its lookup
\* and the completion of the send.
C15_Witness ==
    /\ ev.op = "register"
    /\ client_id[ev.s] # None
    /\ connections_get(connections, client_id[ev.s][1]) = ev.s
    /\ \E T \in Sessions \ {ev.s} :
          /\ pc[T] = "send"
          /\ client_id[T] = client_id[ev.s]

\* A frame that parses to an object with a type.
IsParseable(m) == m.syntax = "object" /\ Member(m, "type")

\* C16, as claimed: a parseable frame leads to a registry lookup exactly
\* when its type is not "register", its sender has a remembered identity
\* and it carries a to field.
C16_Original ==
    [][ \A S \in Sessions :
          ( ev'.op \in MsgOps /\ ev'.s = S /\ IsParseable(ev'.msg) )
          => ( (ev'.op \in {"lookup", "notfound", "relayraise"})
                 <=> ( /\ Value(ev'.msg, "type") # "register"
                       /\ client_id[S] # None
                       /\ Member(ev'.msg, "to") ) )
      ]_vars

\* C17, as claimed: a frame of type "register" without an id terminates its
\* session with no insertion and no change of identity; the teardown
\* unregisters the identity remembered before, if there was one, and leaves
\* the registry as it was if there was none.
C17_Original ==
    [][ \A S \in Sessions :
          ( /\ ev'.op \in MsgOps /\ ev'.s = S
            /\ IsParseable(ev'.msg)
            /\ Value(ev'.msg, "type") = "register"
            /\ ~Member(ev'.msg, "id") )
          => ( /\ pc'[S] = "done"
               /\ client_id' = client_id
               /\ IF client_id[S] # None
                  THEN /\ unregCalls'[S] = <<client_id[S][1]>>
                       /\ SameBut({py_key(client_id[S][1])})
                  ELSE /\ unregCalls'[S] = <<>>
                       /\ connections' = connections )
      ]_vars

\* C18, as claimed: the step that terminates a session removes the registry
\* entry of the identifier the session remembers, whichever connection the
\* entry maps to, and leaves every other session as it was.
C18_Original ==
    [][ \A A \in Sessions :
          ( pc[A] # "done" /\ pc'[A] = "done" /\ client_id'[A] # None )
          => ( /\ SameBut({py_key(client_id'[A][1])})
               /\ \A B \in Sessions \ {A} :
                    pc'[B] = pc[B] /\ client_id'[B] = client_id[B] )
      ]_vars

\* C12: frames from one websocket are dispatched strictly in receipt order,
\* one at a time.  The k-th frame a handler takes from its queue is the k-th
\* frame that arrived; the frames still queued are exactly the later
\* arrivals, in order; while a dispatch awaits its send it is the dispatch of
\* the frame taken last, and no other frame of that websocket is in
\* dispatch; and two frames relayed by one sender to one target websocket
\* are written to it in the order in which they arrived at the sender.
C12_DispatchedInReceiptOrder ==
    /\ \A s \in Sessions :
          /\ \A k \in DOMAIN order[s] : order[s][k].n = k
          /\ \A k \in DOMAIN inq[s] : inq[s][k] = Len(order[s]) + k
          /\ Len(order[s]) + Len(inq[s]) = Len(sent[s])
          /\ (pc[s] = "send") <=> (cur[s] # NoCur)
          /\ pc[s] = "send" => cur[s].n = Len(order[s])
    /\ \A t \in Sessions : \A i \in DOMAIN inbox[t], j \in DOMAIN inbox[t] :
          (i < j /\ inbox[t][i].from = inbox[t][j].from)
          => inbox[t][i].n < inbox[t][j].n

\* Two frames with different texts arrived at one sender before it took
\* either, and both were written to the same target, and a third frame is
\* still queued behind a dispatch that awaits its send.
C12_Witness ==
    \E s \in Sessions, t \in Sessions :
        /\ Len(inbox[t]) = 2
        /\ inbox[t][1].from = s /\ inbox[t][2].from = s
        /\ inbox[t][1].frame # inbox[t][2].frame
        /\ \E u \in Sessions : pc[u] = "send" /\ inq[u] # <<>>

\* C19: no spurious or duplicated delivery.  Every frame written to a
\* websocket is identical to a frame that arrived at some session, which
\* had a remembered identity when it dispatched the frame, and whose `to`
\* field named an identifier that the registry mapped to the receiving
\* websocket at the lookup of that relay; each frame taken from a queue
\* starts at most one send, to one websocket, and is written at most once.
C19_NoSpuriousOrDuplicatedDelivery ==
    /\ \A t \in Sessions : \A i \in DOMAIN inbox[t] :
          LET e == inbox[t][i] IN
          /\ e.n \in DOMAIN sent[e.from]
          /\ e.frame = sent[e.from][e.n]
          /\ e.ident # None
          /\ IsRelayFrame(e.frame)
          /\ e.to = Some(Value(e.frame, "to"))
          /\ e.tgt = t
          /\ \E k \in DOMAIN order[e.from] :
                order[e.from][k].n = e.n /\ order[e.from][k].tgt = t
    /\ \A t \in Sessions, u \in Sessions :
          \A i \in DOMAIN inbox[t], j \in DOMAIN inbox[u] :
             (inbox[t][i].from = inbox[u][j].from /\ inbox[t][i].n = inbox[u][j].n)
             => (t = u /\ i = j)
    /\ \A s \in Sessions : \A k \in DOMAIN order[s], l \in DOMAIN order[s] :
          order[s][k].n = order[s][l].n => k = l

\* A frame was written to another session's websocket, while the sender
\* also took a frame with a `to` field that started no send.
C19_Witness ==
    \E s \in Sessions, t \in Sessions :
        /\ s # t
        /\ \E i \in DOMAIN inbox[t] : inbox[t][i].from = s
        /\ \E k \in DOMAIN order[s] :
              /\ order[s][k].tgt = NoConn
              /\ IsRelayFrame(sent[s][order[s][k].n])
====
